---- MODULE Spec2Model ----
(***************************************************************************)
(* MotionPhotoMuxer.py: a photo and a video are concatenated into one      *)
(* file and the file's XMP metadata is patched with the offset of the      *)
(* video.  The model holds a small file system (an input directory "in"    *)
(* and an output directory "out"), the pyexiv2 namespace registry, and the *)
(* position of main() in its run.                                          *)
(***************************************************************************)
EXTENDS Integers, Sequences, FiniteSets, TLC

VARIABLES fs, dirs, ns, args, pc, exitStatus, pairs, i, merged, offset,
          processed, remaining, copied, log, last, outcome, env, fs0

vars == <<fs, dirs, ns, args, pc, exitStatus, pairs, i, merged, offset,
          processed, remaining, copied, log, last, outcome, env, fs0>>

(* ------------------------------ bounds --------------------------------- *)

\* at most this many entries in the input directory
MaxFiles == 3
\* number of payload bytes of a video without a JPEG signature
VideoLen == 2
\* at most this many files removed by another process during a run
MaxEnv == 1

(* ------------------------------ paths ---------------------------------- *)

jpg == <<"j", "p", "g">>
JPeG == <<"J", "P", "e", "G">>
mov == <<"m", "o", "v">>
mp4 == <<"m", "p", "4">>
MOV == <<"M", "O", "V">>
MP4 == <<"M", "P", "4">>
Mov == <<"M", "o", "v">>
txt == <<"t", "x", "t">>
noext == <<>>

\* the names an entry of a directory may have: stem and extension
Names ==
    { [stem |-> "a", ext |-> e] : e \in {jpg, JPeG, mov, mp4, MOV, MP4, Mov} }
      \cup { [stem |-> "c", ext |-> txt], [stem |-> "sub", ext |-> noext] }

\* the directories of the model; "nodir" never exists, "afile" is a regular file
InDir == "in"
OutDir == "out"
Dirs == {InDir, OutDir}

P(d, n) == [dir |-> d, stem |-> n.stem, ext |-> n.ext]
AllPaths == { P(d, n) : d \in Dirs, n \in Names }

\* an argument that was not given (None), and Path("")
NoPath == [dir |-> "none", stem |-> "", ext |-> noext]
EmptyPath == [dir |-> "", stem |-> "", ext |-> noext]

\* a stable byte that identifies the file a payload byte comes from
NameId(n) ==
    CASE n.ext = jpg -> 1 [] n.ext = JPeG -> 2 [] n.ext = mov -> 3
      [] n.ext = mp4 -> 4 [] n.ext = MOV -> 5 [] n.ext = MP4 -> 6
      [] n.ext = Mov -> 7 [] n.ext = txt -> 8 [] OTHER -> 9

(* --------------------------- str.lower() ------------------------------- *)

LowerChar(c) ==
    CASE c = "J" -> "j" [] c = "P" -> "p" [] c = "E" -> "e" [] c = "G" -> "g"
      [] c = "M" -> "m" [] c = "O" -> "o" [] c = "V" -> "v" [] c = "T" -> "t"
      [] c = "X" -> "x" [] OTHER -> c

Lower(s) == [k \in 1..Len(s) |-> LowerChar(s[k])]

(* ------------------------- file contents ------------------------------- *)

\* A file is a sequence of cells.  <<0>> is the JPEG start-of-image marker,
\* <<1, b>> a payload byte b, <<2, other, mv, ver, off, ts>> the XMP segment
\* (other = 1: keys of another namespace; mv = 0: no GCamera tags).
SOI == <<0>>
Byte(b) == <<1, b>>
Xmp(other, mv, ver, off, ts) == <<2, other, mv, ver, off, ts>>

IsXmp(c) == c[1] = 2

Absent == [kind |-> "none", data |-> <<>>]
File(d) == [kind |-> "file", data |-> d]
Directory == [kind |-> "dir", data |-> <<>>]

exists(f, p) == p \in DOMAIN f /\ f[p].kind # "none"
is_file(f, p) == p \in DOMAIN f /\ f[p].kind = "file"
st_size(f, p) == Len(f[p].data)

\* The shapes the bytes of the photos and of the videos are drawn from.
\* A photo is a plain JPEG ("jpeg"), a JPEG that already carries GCamera XMP
\* ("xmp") or bytes that are no JPEG at all ("raw"); a video is empty, plain
\* payload, or payload that starts with a JPEG signature ("soi": only the
\* extensions of the inputs are checked, never their bytes).
Profiles == { <<"jpeg", "plain">>, <<"jpeg", "empty">>, <<"xmp", "soi">>,
              <<"raw", "plain">> }

PhotoData(shape, b) ==
    CASE shape = "jpeg" -> <<SOI, Byte(b)>>
      [] shape = "xmp" -> <<SOI, Xmp(1, 1, 1, 1, 7), Byte(b)>>
      [] OTHER -> <<Byte(b)>>

VideoData(shape, b) ==
    CASE shape = "empty" -> <<>>
      [] shape = "plain" -> [k \in 1..VideoLen |-> Byte(b)]
      [] OTHER -> <<SOI, Byte(b)>>

IsJpegExt(e) == Lower(e) \in {jpg, <<"j", "p", "e", "g">>}
IsVideoExt(e) == Lower(e) \in {mov, mp4}

InitialEntry(n, ps, vs) ==
    IF n.ext = noext THEN Directory
    ELSE IF IsJpegExt(n.ext) THEN File(PhotoData(ps, NameId(n)))
    ELSE IF IsVideoExt(n.ext) THEN File(VideoData(vs, NameId(n)))
    ELSE File(<<Byte(NameId(n))>>)

(* ----------------------- validate_directory ---------------------------- *)

\* "afile" exists and is no directory; a name not in ds does not exist
validate_directory(ds, d) ==
    IF ~(d \in ds \/ d = "afile") THEN FALSE
    ELSE IF ~(d \in ds) THEN FALSE
    ELSE TRUE

(* ------------------------- validate_media ------------------------------ *)

\* validate_media with the check that the video exists left out
validate_media_no_video_exists(f, photo_path, video_path) ==
    IF ~exists(f, photo_path) THEN [ok |-> FALSE, diag |-> <<"PhotoMissing">>]
    ELSE IF ~(Lower(photo_path.ext) \in {jpg, <<"j", "p", "e", "g">>})
        THEN [ok |-> FALSE, diag |-> <<"PhotoNotJpeg">>]
    ELSE IF ~(Lower(video_path.ext) \in {mov, mp4})
        THEN [ok |-> FALSE, diag |-> <<"VideoNotMovMp4">>]
    ELSE [ok |-> TRUE, diag |-> <<>>]

\* the result of validate_media and the diagnostics it logs
validate_media(f, photo_path, video_path) ==
    IF ~exists(f, photo_path) THEN [ok |-> FALSE, diag |-> <<"PhotoMissing">>]
    ELSE IF ~exists(f, video_path) THEN [ok |-> FALSE, diag |-> <<"VideoMissing">>]
    ELSE IF ~(Lower(photo_path.ext) \in {jpg, <<"j", "p", "e", "g">>})
        THEN [ok |-> FALSE, diag |-> <<"PhotoNotJpeg">>]
    ELSE IF ~(Lower(video_path.ext) \in {mov, mp4})
        THEN [ok |-> FALSE, diag |-> <<"VideoNotMovMp4">>]
    ELSE [ok |-> TRUE, diag |-> <<>>]

(* --------------------------- merge_files ------------------------------- *)

out_path(photo_path, output_path) == [photo_path EXCEPT !.dir = output_path]

\* open(out_path, "wb") truncates the output before the photo and the video
\* are opened and read; the two reads see the file system after that
merge_files(f, photo_path, video_path, output_path) ==
    LET out == out_path(photo_path, output_path)
        opened == [f EXCEPT ![out] = File(<<>>)]
        afterPhoto == [opened EXCEPT ![out] = File(opened[out].data \o opened[photo_path].data)]
    IN  [afterPhoto EXCEPT ![out] = File(afterPhoto[out].data \o afterPhoto[video_path].data)]

(* ------------------------- add_xmp_metadata ---------------------------- *)

PresentationTimestampUs == 1500000

\* exiv2 reads a file only when it starts with an image signature
Readable(data) == Len(data) >= 1 /\ data[1] = SOI
HasXmp(data) == Len(data) >= 2 /\ IsXmp(data[2])
\* the image and everything after it, without the signature and the XMP segment
Rest(data) == SubSeq(data, IF HasXmp(data) THEN 3 ELSE 2, Len(data))

\* add_xmp_metadata with the KeyError of register_namespace left uncaught
add_xmp_metadata_raise(data, reg, off, wfail) ==
    IF ~Readable(data)
    THEN [status |-> "readfail", data |-> data, reg |-> reg, warned |-> FALSE,
          keyerr |-> FALSE]
    ELSE LET other == IF HasXmp(data) THEN data[2][2] ELSE 0
             gcam == HasXmp(data) /\ data[2][3] # 0
             known == reg \/ gcam
             tags == Xmp(other, 1, 1, off, PresentationTimestampUs)
         IN  IF known
             THEN [status |-> "keyerror", data |-> data, reg |-> TRUE,
                   warned |-> HasXmp(data), keyerr |-> TRUE]
             ELSE [status |-> IF wfail THEN "writefail" ELSE "ok",
                   data |-> IF wfail THEN data ELSE <<SOI, tags>> \o Rest(data),
                   reg |-> TRUE,
                   warned |-> HasXmp(data),
                   keyerr |-> known]

\* reg: the GCamera prefix is known to exiv2; wfail: metadata.write() fails
add_xmp_metadata(data, reg, off, wfail) ==
    IF ~Readable(data)
    THEN [status |-> "readfail", data |-> data, reg |-> reg, warned |-> FALSE,
          keyerr |-> FALSE]
    ELSE LET other == IF HasXmp(data) THEN data[2][2] ELSE 0
             gcam == HasXmp(data) /\ data[2][3] # 0
             \* parsing a packet that uses the prefix makes it known
             known == reg \/ gcam
             tags == Xmp(other, 1, 1, off, PresentationTimestampUs)
         IN  [status |-> IF wfail THEN "writefail" ELSE "ok",
              data |-> IF wfail THEN data ELSE <<SOI, tags>> \o Rest(data),
              reg |-> TRUE,
              warned |-> HasXmp(data),
              keyerr |-> known]

(* ------------------------------ convert -------------------------------- *)

\* the offset convert computes from the sizes after the merge
convert_offset(f, photo_path, merged_path) ==
    st_size(f, merged_path) - st_size(f, photo_path)

(* --------------------------- matching_video ---------------------------- *)

video_extensions == <<mov, mp4, MOV, MP4>>

with_suffix(p, e) == [p EXCEPT !.ext = e]

\* matching_video returning the last probe that exists instead of the first
matching_video_last(f, photo_path) ==
    LET hits == { k \in 1..Len(video_extensions) :
                    exists(f, with_suffix(photo_path, video_extensions[k])) }
    IN  IF hits = {} THEN EmptyPath
        ELSE with_suffix(photo_path,
                 video_extensions[CHOOSE k \in hits : \A m \in hits : k >= m])

matching_video(f, photo_path) ==
    LET hits == { k \in 1..Len(video_extensions) :
                    exists(f, with_suffix(photo_path, video_extensions[k])) }
    IN  IF hits = {} THEN EmptyPath
        ELSE with_suffix(photo_path,
                 video_extensions[CHOOSE k \in hits : \A m \in hits : k <= m])

(* ------------------------- process_directory --------------------------- *)

iterdir(f, d) == { p \in AllPaths : p.dir = d /\ f[p].kind # "none" }

\* process_directory comparing the photo's suffix without lower()
process_directory_exact_suffix(f, d) ==
    { <<file, matching_video(f, file)>> :
        file \in { p \in iterdir(f, d) :
                     /\ is_file(f, p)
                     /\ p.ext \in {jpg, <<"j", "p", "e", "g">>}
                     /\ matching_video(f, p) # EmptyPath } }

process_directory(f, d) ==
    { <<file, matching_video(f, file)>> :
        file \in { p \in iterdir(f, d) :
                     /\ is_file(f, p)
                     /\ Lower(p.ext) \in {jpg, <<"j", "p", "e", "g">>}
                     /\ matching_video(f, p) # EmptyPath } }

\* the orders in which a directory listing can deliver a set
Orders(S) ==
    { s \in [1..Cardinality(S) -> S] :
        \A x, y \in 1..Cardinality(S) : x # y => s[x] # s[y] }

(* -------------------------------- main --------------------------------- *)

\* --output, with its default
outdir(a) == IF a.output # "none" THEN a.output ELSE OutDir

\* main_mode with the check that both --photo and --video are given left out
main_mode_either(a, ds) ==
    IF a.dir # "none"
    THEN IF ~validate_directory(ds, a.dir) THEN "fatal"
         ELSE IF a.recurse THEN "fatal"
         ELSE "dir"
    ELSE IF a.photo = NoPath /\ a.video = NoPath THEN "fatal"
         ELSE "single"

\* which branch of main a command line takes
main_mode(a, ds) ==
    IF a.dir # "none"
    THEN IF ~validate_directory(ds, a.dir) THEN "fatal"
         ELSE IF a.recurse THEN "fatal"
         ELSE "dir"
    ELSE IF a.photo = NoPath /\ a.video = NoPath THEN "fatal"
         ELSE IF (a.photo # NoPath) # (a.video # NoPath) THEN "fatal"
         ELSE "single"

NoArgs == [dir |-> "none", photo |-> NoPath, video |-> NoPath, output |-> "none",
           copyall |-> FALSE, recurse |-> FALSE]

Args ==
    [dir : {"none", InDir, "nodir", "afile"},
     photo : {NoPath, P(InDir, [stem |-> "a", ext |-> jpg]),
              P(InDir, [stem |-> "c", ext |-> txt])},
     video : {NoPath, P(InDir, [stem |-> "a", ext |-> mov]),
              P(InDir, [stem |-> "a", ext |-> jpg])},
     output : {"none", InDir},
     copyall : BOOLEAN,
     recurse : BOOLEAN]

NoLast == [status |-> "none", keyerr |-> FALSE, warned |-> FALSE, photo |-> NoPath,
           video |-> NoPath]

Init ==
    /\ \E S \in SUBSET Names : \E pr \in Profiles :
         /\ Cardinality(S) <= MaxFiles
         /\ fs = [p \in AllPaths |->
                    IF p.dir = InDir /\ [stem |-> p.stem, ext |-> p.ext] \in S
                    THEN InitialEntry(p, pr[1], pr[2]) ELSE Absent]
    /\ fs0 = fs
    /\ dirs = {InDir}
    /\ ns = FALSE
    /\ args = NoArgs
    /\ pc = "idle"
    /\ exitStatus = -1
    /\ pairs = <<>>
    /\ i = 1
    /\ merged = NoPath
    /\ offset = 0
    /\ processed = {}
    /\ remaining = {}
    /\ copied = {}
    /\ log = <<>>
    /\ last = NoLast
    /\ outcome = <<>>
    /\ env = 0

\* lines 136-145 and 168-178: the command line is read and the work list built
Main(a) ==
    /\ pc = "idle"
    /\ args' = a
    /\ LET m == main_mode(a, dirs) IN
         \/ /\ m = "fatal"
            /\ pc' = "exit"
            /\ exitStatus' = 1
            /\ pairs' = pairs
         \/ /\ m = "dir"
            /\ \E order \in Orders(process_directory(fs, a.dir)) : pairs' = order
            /\ pc' = "loop"
            /\ exitStatus' = exitStatus
         \/ /\ m = "single"
            /\ pairs' = << <<a.photo, a.video>> >>
            /\ pc' = "loop"
            /\ exitStatus' = exitStatus
    /\ UNCHANGED <<fs, dirs, ns, i, merged, offset, processed, remaining, copied, log, last,
                   outcome, env, fs0>>

DirMode == args.dir # "none"

\* Validate ending the run at the first pair that fails validate_media
Validate_abort ==
    /\ pc = "loop"
    /\ i <= Len(pairs)
    /\ LET r == validate_media(fs, pairs[i][1], pairs[i][2]) IN
         /\ log' = log \o r.diag
         /\ IF r.ok THEN pc' = "convert" /\ exitStatus' = exitStatus
            ELSE pc' = "exit" /\ exitStatus' = 1
    /\ UNCHANGED <<fs, dirs, ns, args, pairs, i, merged, offset, processed,
                   remaining, copied, last, outcome, env, fs0>>

\* lines 148 and 177: validate_media on the next pair
Validate ==
    /\ pc = "loop"
    /\ i <= Len(pairs)
    /\ LET r == validate_media(fs, pairs[i][1], pairs[i][2]) IN
         /\ log' = log \o r.diag
         /\ IF r.ok THEN pc' = "convert" /\ i' = i /\ outcome' = outcome
            ELSE pc' = "loop" /\ i' = i + 1 /\ outcome' = Append(outcome, "skipped")
    /\ UNCHANGED <<fs, dirs, ns, args, exitStatus, pairs, merged, offset, processed,
                   remaining, copied, last, env, fs0>>

\* lines 92-98: merge_files, then the offset from the two sizes
Merge ==
    /\ pc = "convert"
    /\ LET photo == pairs[i][1]
           video == pairs[i][2]
           f1 == merge_files(fs, photo, video, outdir(args))
           out == out_path(photo, outdir(args))
       IN  /\ fs' = f1
           /\ dirs' = dirs \cup {outdir(args)}
           /\ merged' = out
           /\ offset' = convert_offset(f1, photo, out)
    /\ pc' = "patch"
    /\ UNCHANGED <<ns, args, exitStatus, pairs, i, processed, remaining, copied, log, last,
                   outcome, env, fs0>>

\* line 99 and lines 150-151: add_xmp_metadata, then the processed set
Patch(wfail) ==
    /\ pc = "patch"
    /\ LET r == add_xmp_metadata(fs[merged].data, ns, offset, wfail) IN
         /\ ns' = r.reg
         /\ fs' = [fs EXCEPT ![merged] = File(r.data)]
         /\ last' = [status |-> r.status, keyerr |-> r.keyerr, warned |-> r.warned,
                     photo |-> pairs[i][1], video |-> pairs[i][2]]
         /\ outcome' = Append(outcome, IF r.status = "ok" THEN "converted" ELSE "failed")
         /\ IF r.status = "ok"
            THEN /\ pc' = "loop"
                 /\ i' = i + 1
                 /\ exitStatus' = exitStatus
                 /\ processed' = IF DirMode THEN processed \cup {pairs[i][1], pairs[i][2]}
                                 ELSE processed
            ELSE /\ pc' = "crashed"
                 /\ exitStatus' = 1
                 /\ UNCHANGED <<i, processed>>
    /\ UNCHANGED <<dirs, args, pairs, merged, offset, remaining, copied, log, env, fs0>>

\* remaining_files with the subtraction of the processed set left out
remaining_files_all(f, d, procesed_files) == iterdir(f, d)

\* lines 155-156: what --copyall copies
remaining_files(f, d, procesed_files) == iterdir(f, d) \ procesed_files

\* lines 153-162: after the last pair
EndLoop ==
    /\ pc = "loop"
    /\ i > Len(pairs)
    /\ IF DirMode /\ args.copyall
       THEN LET rem == remaining_files(fs, args.dir, processed) IN
              /\ remaining' = rem
              /\ dirs' = IF rem # {} THEN dirs \cup {outdir(args)} ELSE dirs
              /\ pc' = "copy"
              /\ exitStatus' = exitStatus
       ELSE /\ pc' = "done"
            /\ exitStatus' = 0
            /\ UNCHANGED <<remaining, dirs>>
    /\ UNCHANGED <<fs, ns, args, pairs, i, merged, offset, processed, copied, log, last,
                   outcome, env, fs0>>

\* shutil.copy2 of one file of the input directory
copy2(f, file, destination_path) == [f EXCEPT ![destination_path] = f[file]]

\* lines 164-167: one turn of the copy loop
CopyFile(file) ==
    /\ pc = "copy"
    /\ file \in remaining
    /\ LET destination_path == out_path(file, outdir(args)) IN
         IF fs[file].kind = "dir" \/ destination_path = file
         THEN /\ pc' = "crashed"
              /\ exitStatus' = 1
              /\ UNCHANGED <<fs, remaining, copied>>
         ELSE /\ fs' = copy2(fs, file, destination_path)
              /\ remaining' = remaining \ {file}
              /\ copied' = copied \cup {file}
              /\ UNCHANGED <<pc, exitStatus>>
    /\ UNCHANGED <<dirs, ns, args, pairs, i, merged, offset, processed, log, last, outcome,
                   env, fs0>>

\* the copy loop ends and main returns
CopyDone ==
    /\ pc = "copy"
    /\ remaining = {}
    /\ pc' = "done"
    /\ exitStatus' = 0
    /\ UNCHANGED <<fs, dirs, ns, args, pairs, i, merged, offset, processed, remaining,
                   copied, log, last, outcome, env, fs0>>

Next ==
    \/ \E a \in Args : Main(a)
    \/ Validate
    \/ Merge
    \/ \E wfail \in BOOLEAN : Patch(wfail)
    \/ EndLoop
    \/ \E file \in AllPaths : CopyFile(file)
    \/ CopyDone

Spec == Init /\ [][Next]_vars

\* Another process removes the photo or the video of a pair after the
\* directory was listed and before the pair is validated.
EnvRemove(p) ==
    /\ pc = "loop"
    /\ DirMode
    /\ env < MaxEnv
    /\ \E k \in i..Len(pairs) : p \in {pairs[k][1], pairs[k][2]}
    /\ fs[p].kind = "file"
    /\ fs' = [fs EXCEPT ![p] = Absent]
    /\ env' = env + 1
    /\ UNCHANGED <<dirs, ns, args, pc, exitStatus, pairs, i, merged, offset, processed,
                   remaining, copied, log, last, outcome, fs0>>

NextEnv ==
    \/ Next
    \/ \E p \in AllPaths : EnvRemove(p)

\* the run on a file system that other processes change
SpecEnv == Init /\ [][NextEnv]_vars

(* ------------------------------ claims --------------------------------- *)

InputDirMode == DirMode /\ pc \notin {"idle", "exit"}
SingleMode == ~DirMode /\ pc \notin {"idle", "exit"}
OutArtifact(k) == out_path(pairs[k][1], outdir(args))
Converted == { k \in 1..Len(outcome) : outcome[k] = "converted" }

\* C1: once convert has merged a pair, the merged file has size P + V, where
\* P and V are the sizes of the photo and of the video, and the offset handed
\* to add_xmp_metadata is V (so it is positive when the video is not empty),
\* whatever the output directory is.
C1_MergedSizeAndOffset ==
    pc = "patch" =>
        LET sizeP == st_size(fs0, pairs[i][1])
            sizeV == st_size(fs0, pairs[i][2])
        IN  /\ st_size(fs, merged) = sizeP + sizeV
            /\ offset = sizeV
            /\ (sizeV > 0 => offset > 0)

\* the XMP MicroVideoOffset stored in a file
MicroVideoOffset(data) == data[2][5]
LastBytes(data, n) == SubSeq(data, Len(data) - n + 1, Len(data))

\* C2: for every artifact convert has produced, the last MicroVideoOffset
\* bytes of the file are the bytes of the original video.
C2_RoundTrip ==
    \A k \in Converted :
        LET data == fs[OutArtifact(k)].data
        IN  /\ HasXmp(data)
            /\ LastBytes(data, MicroVideoOffset(data)) = fs0[pairs[k][2]].data

\* C3: a completed directory run without --copyall leaves one merged file per
\* matched pair in the output directory, creates nothing else, and leaves
\* every file of the source directory with the content it had.
C3_BatchFrame ==
    (pc = "done" /\ DirMode /\ ~args.copyall) =>
        LET matched == process_directory(fs0, InDir)
            outputs == { out_path(pr[1], outdir(args)) : pr \in matched }
        IN  /\ \A o \in outputs : is_file(fs, o)
            /\ \A p \in AllPaths : (p \notin outputs /\ p.dir # InDir) => fs[p] = fs0[p]
            /\ \A p \in AllPaths : p.dir = InDir /\ exists(fs0, p) => fs[p] = fs0[p]
            /\ \A p \in AllPaths : p.dir = InDir /\ ~exists(fs0, p) /\ p \notin outputs
                                     => ~exists(fs, p)

\* C4: after a completed directory run with --copyall, every entry of the
\* input directory outside the processed set has a byte-identical copy in the
\* output directory under its own name, and no entry of the processed set
\* was copied: the output holds the merged artifact under the photo's name
\* and nothing under the video's name.
C4_CopyAll ==
    (pc = "done" /\ DirMode /\ args.copyall) =>
        \A p \in iterdir(fs0, InDir) :
            IF p \notin processed
            THEN /\ p \in copied
                 /\ fs[out_path(p, outdir(args))] = fs0[p]
                 /\ fs[p] = fs0[p]
            ELSE /\ p \notin copied
                 /\ outdir(args) # InDir => fs[out_path(p, outdir(args))] # fs0[p]

\* a pair was converted and an entry outside the processed set (an unpaired
\* JPEG, an unpaired video or a non-media file) was copied
C4_Witness ==
    /\ pc = "done" /\ DirMode /\ args.copyall
    /\ processed # {}
    /\ \E p \in copied : fs[out_path(p, outdir(args))] = fs0[p] /\ p.dir # outdir(args)

\* C5: the video of every pair process_directory returns is the first
\* existing sibling in the order .mov, .mp4, .MOV, .MP4, and a JPEG with no
\* such sibling is in no pair.
C5_ProbeOrder ==
    InputDirMode =>
        /\ \A k \in 1..Len(pairs) :
             LET photo == pairs[k][1]
                 has(e) == exists(fs0, with_suffix(photo, e))
             IN  /\ pairs[k][2] # EmptyPath
                 /\ pairs[k][2] =
                      IF has(mov) THEN with_suffix(photo, mov)
                      ELSE IF has(mp4) THEN with_suffix(photo, mp4)
                      ELSE IF has(MOV) THEN with_suffix(photo, MOV)
                      ELSE with_suffix(photo, MP4)
                 /\ exists(fs0, pairs[k][2])
        /\ \A p \in iterdir(fs0, InDir) :
             (\A e \in {mov, mp4, MOV, MP4} : ~exists(fs0, with_suffix(p, e)))
                 => \A k \in 1..Len(pairs) : pairs[k][1] # p

\* a photo with both a .MOV and a .MP4 sibling was paired with the .MOV
C5_Witness ==
    /\ InputDirMode
    /\ \E k \in 1..Len(pairs) :
         /\ pairs[k][2].ext = MOV
         /\ exists(fs0, with_suffix(pairs[k][1], MP4))

\* the JPEG files of the input directory
JpegFiles == { p \in iterdir(fs0, InDir) :
                 is_file(fs0, p) /\ Lower(p.ext) \in {jpg, <<"j", "p", "e", "g">>} }
Siblings(p) == { v \in iterdir(fs0, InDir) : v.stem = p.stem }

\* C6 as stated: a JPEG with a sibling whose extension is .mov or .mp4 in
\* any letter casing is returned in a pair.
C6_AnyCasing ==
    InputDirMode =>
        \A p \in JpegFiles :
            (\E v \in Siblings(p) : Lower(v.ext) \in {mov, mp4})
                => \E k \in 1..Len(pairs) : pairs[k][1] = p

\* C6 as amended: a JPEG (extension in any casing) with a sibling whose
\* extension is exactly .mov, .mp4, .MOV or .MP4 is returned in a pair with
\* such a sibling.
C6_FourSpellings ==
    InputDirMode =>
        \A p \in JpegFiles :
            (\E v \in Siblings(p) : v.ext \in {mov, mp4, MOV, MP4})
                => \E k \in 1..Len(pairs) :
                     /\ pairs[k][1] = p
                     /\ pairs[k][2] \in Siblings(p)
                     /\ pairs[k][2].ext \in {mov, mp4, MOV, MP4}

\* a photo with a mixed-case extension was paired with an upper-case video
C6_Witness ==
    /\ InputDirMode
    /\ \E k \in 1..Len(pairs) : pairs[k][1].ext = JPeG /\ pairs[k][2].ext = MP4

\* the four conditions of validate_media on the pair of a single-pair run
PhotoMissing == ~exists(fs0, args.photo)
VideoMissing == ~exists(fs0, args.video)
PhotoNotJpeg == ~(Lower(args.photo.ext) \in {jpg, <<"j", "p", "e", "g">>})
VideoNotMovMp4 == ~(Lower(args.video.ext) \in {mov, mp4})
\* validate_media has returned in a single-pair run
Validated == SingleMode /\ (i > 1 \/ pc # "loop")
Rejected == outcome = <<"skipped">>
Logged == { log[k] : k \in 1..Len(log) }

\* C7 as stated: validate_media returns false iff a condition holds and logs
\* one diagnostic for each condition that holds.
C7_AllDiagnostics ==
    Validated =>
        /\ Rejected <=> (PhotoMissing \/ VideoMissing \/ PhotoNotJpeg \/ VideoNotMovMp4)
        /\ PhotoMissing <=> "PhotoMissing" \in Logged
        /\ VideoMissing <=> "VideoMissing" \in Logged
        /\ PhotoNotJpeg <=> "PhotoNotJpeg" \in Logged
        /\ VideoNotMovMp4 <=> "VideoNotMovMp4" \in Logged

\* C7 as amended: validate_media returns false iff a condition holds and logs
\* exactly one diagnostic, that of the first condition that holds in the
\* order missing photo, missing video, photo extension, video extension.
C7_FirstFailureOnly ==
    Validated =>
        /\ Rejected <=> (PhotoMissing \/ VideoMissing \/ PhotoNotJpeg \/ VideoNotMovMp4)
        /\ log = IF PhotoMissing THEN <<"PhotoMissing">>
                 ELSE IF VideoMissing THEN <<"VideoMissing">>
                 ELSE IF PhotoNotJpeg THEN <<"PhotoNotJpeg">>
                 ELSE IF VideoNotMovMp4 THEN <<"VideoNotMovMp4">>
                 ELSE <<>>

\* an existing photo with a wrong extension and a missing video with a wrong
\* extension: three conditions hold and one diagnostic is logged
C7_Witness ==
    /\ Validated
    /\ ~PhotoMissing /\ VideoMissing /\ PhotoNotJpeg /\ VideoNotMovMp4
    /\ log = <<"VideoMissing">>

ExactlyOne == (args.photo # NoPath) # (args.video # NoPath)

\* C9 as stated: with exactly one of --photo and --video the run ends with a
\* non-zero status and creates nothing, whatever the other options are.
C9_ExactlyOneAnyOptions ==
    (ExactlyOne /\ pc # "idle") =>
        /\ pc = "exit" /\ exitStatus = 1
        /\ fs = fs0 /\ dirs = {InDir}

\* C9 as amended: the same when --dir is not given.
C9_ExactlyOneNoDir ==
    (ExactlyOne /\ args.dir = "none" /\ pc # "idle") =>
        /\ pc = "exit" /\ exitStatus = 1
        /\ fs = fs0 /\ dirs = {InDir}

\* only --video given, with --output, --copyall and --recurse
C9_Witness ==
    /\ args.photo = NoPath /\ args.video # NoPath /\ args.dir = "none"
    /\ args.copyall /\ args.recurse /\ args.output = InDir
    /\ exists(fs0, args.video)
    /\ pc = "exit" /\ exitStatus = 1

\* the four GCamera tags of the artifact of the last conversion
TagsWritten ==
    LET data == fs[merged].data
    IN  /\ HasXmp(data)
        /\ data[2][3] = 1 /\ data[2][4] = 1 /\ data[2][5] = offset
        /\ data[2][6] = 1500000

\* the namespace error is swallowed and the tags are written
NamespaceSwallowed ==
    /\ last.keyerr => last.status \in {"ok", "writefail"}
    /\ (last.status = "ok" /\ pc # "patch") => TagsWritten

C8_BatchContinues ==
    DirMode =>
        /\ pc = "exit" => (pairs = <<>> /\ outcome = <<>>)
        /\ processed = UNION { {pairs[k][1], pairs[k][2]} : k \in Converted }
        /\ pc \in {"convert", "patch"} =>
             /\ Len(outcome) = i - 1
             /\ \A j \in (i + 1)..Len(pairs) :
                    fs[OutArtifact(j)] \in {fs0[OutArtifact(j)], Absent}
             /\ \A j \in 1..(i - 1) :
                    outcome[j] = "converted" =>
                        /\ outdir(args) # InDir => is_file(fs, OutArtifact(j))
                        /\ is_file(fs, OutArtifact(j)) =>
                               /\ HasXmp(fs[OutArtifact(j)].data)
                               /\ fs[OutArtifact(j)].data[2][6] = 1500000
        /\ pc = "done" =>
             /\ exitStatus = 0
             /\ Len(outcome) = Len(pairs)
             /\ \A k \in 1..Len(pairs) :
                    /\ outcome[k] \in {"converted", "skipped"}
                    /\ outcome[k] = "skipped" =>
                           ~(exists(fs, pairs[k][1]) /\ exists(fs, pairs[k][2]))
                    /\ (exists(fs, pairs[k][1]) /\ exists(fs, pairs[k][2])) =>
                           outcome[k] = "converted"

\* the first pair was skipped, the second was converted, the run ended with 0
C8_Witness ==
    /\ DirMode /\ pc = "done" /\ exitStatus = 0
    /\ outcome = <<"skipped", "converted">>
    /\ processed = {pairs[2][1], pairs[2][2]}

====
